---- MODULE Spec2Model ----
(***************************************************************************)
(* Model of src/foliumMap.py: the class FoliumMap, a wrapper that owns one *)
(* folium.Map and forwards setters, getters and drawing helpers to it.     *)
(*                                                                         *)
(* Python values are tagged records [t, v]: t is the value's type() and v  *)
(* an integer payload (the int itself, a float in tenths, 0 for a str).    *)
(* The wrapped map is the triple (location, options, children); options    *)
(* is a dict object, so a reference to it handed out by get_map_info keeps *)
(* seeing later in-place writes until the map itself is replaced.          *)
(***************************************************************************)
EXTENDS Integers, Sequences, FiniteSets

VARIABLES
    location,   \* folium_map.location
    options,    \* folium_map.options, the dict object of the current map
    children,   \* overlays added to the current map, in order of add_to
    info,       \* <<>> or <<d>>: the dict last returned by get_map_info
    held,       \* <<>> or <<o>>: options dict of a replaced map that info still references
    frontend,   \* TRUE iff the name `display` is defined (Jupyter/IPython)
    last        \* the last call: [op, args, result, out]

vars == <<location, options, children, info, held, frontend, last>>

mapState == <<location, options, children>>

---------------------------------------------------------------------------
(* Bounds of the model *)

\* rows of a location table, and overlays on one map, when the overlays are explored
MaxRows == 3

MaxOverlays == 3

\* the same two, when the map's center, zoom and info are explored
FewRows == 1

FewOverlays == 1

(* Program constants *)

MinZoom == 1

MaxZoom == 18

DefaultZoom == 12

DefaultRadius == 5000

DefaultWeight == 3

DefaultFillOpacityTenths == 3

PopupWidth == 150

---------------------------------------------------------------------------
(* Python values *)

I(n) == [t |-> "int", v |-> n]

F(tenths) == [t |-> "float", v |-> tenths]

Str == [t |-> "str", v |-> 0]

\* type(x) in [int, float]
IsNumeric(x) == x.t \in {"int", "float"}

\* type(x) == int
IsInt(x) == x.t = "int"

IntZooms == {MinZoom - 1, MinZoom, DefaultZoom, MaxZoom, MaxZoom + 7}

\* zoom_scale arguments of the constructor: ints in and around the range
ZoomScales == {I(z) : z \in IntZooms}

\* zoom arguments of set_zoom_scale: the same ints, the float 3.5, a str
ZoomInputs == ZoomScales \cup {F(35), Str}

LatInputs == {I(37), F(375), Str}

LngInputs == {F(1269), Str}

---------------------------------------------------------------------------
(* The wrapped library, as far as the wrapper uses it *)

\* folium refuses a location whose coordinates are not numbers
ValidLocation(loc) == IsNumeric(loc[1]) /\ IsNumeric(loc[2])

\* folium.Map(location, zoom_start): a fresh map with a fresh options dict, no children
folium_Map(center, zoom_start) ==
    [location |-> center, options |-> [zoom |-> zoom_start], children |-> <<>>]

\* popup = f'<div style="width:150px">{name}</div>'
Popup(name) == [width |-> PopupWidth, text |-> name]

folium_Marker(loc, popup) == [kind |-> "Marker", location |-> loc, popup |-> popup]

\* folium.Circle(location, radius=..., weight=..., color=..., fill=..., ...)
folium_Circle(loc, kw, popup) ==
    [kind |-> "Circle", location |-> loc, popup |-> popup, style |-> kw]

\* folium.GeoJson(data, name="seoul", style_function=..., popup=GeoJsonPopup(fields=['name']))
folium_GeoJson(data) ==
    [kind |-> "GeoJson", name |-> "seoul", data |-> data,
     style |-> [fillColor |-> "yellow", color |-> "black", weight |-> 2,
                fillOpacityHundredths |-> 15],
     popupFields |-> <<"name">>]

---------------------------------------------------------------------------
(* Location tables (pandas.DataFrame with columns name, lat, lng) *)

\* A table is a sequence of rows; a row carries its index label.
GoodRow(label, pos) ==
    [label |-> label,
     name |-> IF pos % 2 = 0 THEN "A" ELSE "B",
     lat |-> I(pos % 2), lng |-> F(1269)]

\* a row whose lat is a str
BadRow(label, pos) == [GoodRow(label, pos) EXCEPT !.lat = Str]

\* index labels of an n-row table: the default RangeIndex, a reversed one, one
\* starting at 1, one with label 1 dropped, one repeating label 0
Indexes(n) ==
    { [p \in 1..n |-> p - 1],
      [p \in 1..n |-> n - p],
      [p \in 1..n |-> p],
      [p \in 1..n |-> IF p = 1 THEN 0 ELSE p],
      [p \in 1..n |-> 0] }

\* tables of n rows: any of the indexes, at most one bad row (at position bad - 1)
TablesOfLen(n) ==
    { [p \in 1..n |-> IF p = bad THEN BadRow(idx[p], p - 1) ELSE GoodRow(idx[p], p - 1)] :
        idx \in Indexes(n), bad \in 0..n }

TablesUpTo(rows) == UNION { TablesOfLen(n) : n \in 0..rows }

\* loc_df.shape[0]
Shape0(df) == Len(df)

\* loc_df.loc[i, ["name", "lat", "lng"]] followed by the unpacking into
\* name, lat, lng: a missing label raises KeyError; a label held by several rows
\* selects a frame, whose unpacking yields the three column names
Loc(df, i) ==
    LET hits == { p \in 1..Len(df) : df[p].label = i } IN
    IF hits = {} THEN [raised |-> TRUE, name |-> "", lat |-> Str, lng |-> Str]
    ELSE IF Cardinality(hits) = 1
         THEN LET p == CHOOSE q \in hits : TRUE IN
              [raised |-> FALSE, name |-> df[p].name, lat |-> df[p].lat, lng |-> df[p].lng]
         ELSE [raised |-> FALSE, name |-> "name", lat |-> Str, lng |-> Str]

\* keyword arguments of make_circle: each key present (<<value>>) or absent (<<>>)
NoKwargs ==
    [radius |-> <<>>, weight |-> <<>>, color |-> <<>>, fill |-> <<>>,
     fill_opacity |-> <<>>, fill_color |-> <<>>]

KwargSets ==
    { NoKwargs,
      [NoKwargs EXCEPT !.radius = <<100>>, !.color = <<"red">>, !.fill = <<FALSE>>] }

\* kwargs[key] if key in kwargs else default
KwOr(opt, default) == IF opt # <<>> THEN opt[1] ELSE default

CircleStyle(kwargs) ==
    [radius |-> KwOr(kwargs.radius, DefaultRadius),
     weight |-> KwOr(kwargs.weight, DefaultWeight),
     color |-> KwOr(kwargs.color, "brown"),
     fill |-> KwOr(kwargs.fill, TRUE),
     fill_opacity |-> KwOr(kwargs.fill_opacity, DefaultFillOpacityTenths),
     fill_color |-> KwOr(kwargs.fill_color, "coral")]

\* GeoJSON files a path may name
Files == {"missing", "malformed", "geojson"}

---------------------------------------------------------------------------
(* The loops of make_marker and make_circle: rows 0 .. shape[0]-1 in order,   *)
(* each overlay added to the map before the next row is read; an exception    *)
(* leaves the loop with what was added so far.                                *)

RECURSIVE MarkerLoop(_, _, _)
MarkerLoop(df, i, ch) ==
    IF i >= Shape0(df) THEN [children |-> ch, result |-> "ok"]
    ELSE LET row == Loc(df, i) IN
         IF row.raised THEN [children |-> ch, result |-> "KeyError"]
         ELSE IF ~ValidLocation(<<row.lat, row.lng>>)
              THEN [children |-> ch, result |-> "ValueError"]
              ELSE MarkerLoop(df, i + 1,
                       Append(ch, folium_Marker(<<row.lat, row.lng>>, Popup(row.name))))

RECURSIVE CircleLoop(_, _, _, _)
CircleLoop(df, style, i, ch) ==
    IF i >= Shape0(df) THEN [children |-> ch, result |-> "ok"]
    ELSE LET row == Loc(df, i) IN
         IF row.raised THEN [children |-> ch, result |-> "KeyError"]
         ELSE IF ~ValidLocation(<<row.lat, row.lng>>)
              THEN [children |-> ch, result |-> "ValueError"]
              ELSE CircleLoop(df, style, i + 1,
                       Append(ch, folium_Circle(<<row.lat, row.lng>>, style, Popup(row.name))))

---------------------------------------------------------------------------
(* The wrapper's methods *)

\* what the caller sees of a call: its arguments, "ok" or the exception raised, and
\* what it wrote to the screen
Returned(op, args, result) ==
    [op |-> op, args |-> args, result |-> result, out |-> "none"]

\* the map is replaced: a dict handed out by get_map_info keeps the old options object
Detach == IF info # <<>> /\ info[1].options = "map" THEN <<options>> ELSE held

Rebind == IF info # <<>> /\ info[1].options = "map"
          THEN <<[info[1] EXCEPT !.options = "held"]>>
          ELSE info

\* FoliumMap(center, zoom_scale); with a location the library refuses no wrapper is made
Construct(center, zoom_scale) ==
    /\ ValidLocation(center)
    /\ LET m == folium_Map(center, zoom_scale) IN
       /\ location' = m.location
       /\ options' = m.options
       /\ children' = m.children
    /\ info' = Rebind
    /\ held' = Detach
    /\ last' = Returned("__init__", <<center, zoom_scale>>, "ok")
    /\ UNCHANGED frontend

\* set_center accepting the pair when either coordinate is numeric
set_center_either(lat, lng) ==
    IF IsNumeric(lat) \/ IsNumeric(lng)
    THEN /\ location' = <<lat, lng>>
         /\ last' = Returned("set_center", <<lat, lng>>, "ok")
         /\ UNCHANGED <<options, children, info, held, frontend>>
    ELSE /\ last' = Returned("set_center", <<lat, lng>>, "Exception")
         /\ UNCHANGED <<location, options, children, info, held, frontend>>

set_center(lat, lng) ==
    IF IsNumeric(lat) /\ IsNumeric(lng)
    THEN /\ location' = <<lat, lng>>
         /\ last' = Returned("set_center", <<lat, lng>>, "ok")
         /\ UNCHANGED <<options, children, info, held, frontend>>
    ELSE /\ last' = Returned("set_center", <<lat, lng>>, "Exception")
         /\ UNCHANGED <<location, options, children, info, held, frontend>>

\* Clamp without the upper limit
ClampLowOnly(z) == IF z < MinZoom THEN MinZoom ELSE z

Clamp(z) == LET lo == IF z < MinZoom THEN MinZoom ELSE z
            IN  IF lo > MaxZoom THEN MaxZoom ELSE lo

set_zoom_scale(zoom) ==
    IF IsInt(zoom)
    THEN /\ options' = [options EXCEPT !.zoom = I(Clamp(zoom.v))]
         /\ last' = Returned("set_zoom_scale", <<zoom>>, "ok")
         /\ UNCHANGED <<location, children, info, held, frontend>>
    ELSE /\ last' = Returned("set_zoom_scale", <<zoom>>, "Exception")
         /\ UNCHANGED <<location, options, children, info, held, frontend>>

\* get_map_info building its options afresh instead of handing out the map's
get_map_info_fresh ==
    /\ info' = <<[center |-> location, options |-> "held"]>>
    /\ held' = <<[zoom |-> I(DefaultZoom)]>>
    /\ last' = Returned("get_map_info", <<>>, "ok")
    /\ UNCHANGED <<location, options, children, frontend>>

\* the returned dict holds the location value and a reference to the options object
get_map_info ==
    /\ info' = <<[center |-> location, options |-> "map"]>>
    /\ held' = <<>>
    /\ last' = Returned("get_map_info", <<>>, "ok")
    /\ UNCHANGED <<location, options, children, frontend>>

\* make_marker undoing its markers when a row fails
make_marker_atomic(loc_df) ==
    /\ LET r == MarkerLoop(loc_df, 0, children) IN
       /\ children' = IF r.result = "ok" THEN r.children ELSE children
       /\ last' = Returned("make_marker", <<loc_df>>, r.result)
    /\ UNCHANGED <<location, options, info, held, frontend>>

make_marker(loc_df) ==
    /\ LET r == MarkerLoop(loc_df, 0, children) IN
       /\ children' = r.children
       /\ last' = Returned("make_marker", <<loc_df>>, r.result)
    /\ UNCHANGED <<location, options, info, held, frontend>>

\* make_bound handing an unparsed file to the map
make_bound_unparsed(geo_path) ==
    /\ IF geo_path = "missing"
       THEN /\ last' = Returned("make_bound", <<geo_path>>, "FileNotFoundError")
            /\ UNCHANGED children
       ELSE /\ children' = Append(children, folium_GeoJson(geo_path))
            /\ last' = Returned("make_bound", <<geo_path>>, "ok")
    /\ UNCHANGED <<location, options, info, held, frontend>>

make_bound(geo_path) ==
    /\ IF geo_path = "missing"
       THEN /\ last' = Returned("make_bound", <<geo_path>>, "FileNotFoundError")
            /\ UNCHANGED children
       ELSE IF geo_path = "malformed"
            THEN /\ last' = Returned("make_bound", <<geo_path>>, "JSONDecodeError")
                 /\ UNCHANGED children
            ELSE /\ children' = Append(children, folium_GeoJson(geo_path))
                 /\ last' = Returned("make_bound", <<geo_path>>, "ok")
    /\ UNCHANGED <<location, options, info, held, frontend>>

make_circle(loc_df, kwargs) ==
    /\ LET r == CircleLoop(loc_df, CircleStyle(kwargs), 0, children) IN
       /\ children' = r.children
       /\ last' = Returned("make_circle", <<loc_df, kwargs>>, r.result)
    /\ UNCHANGED <<location, options, info, held, frontend>>

\* clear carrying the overlays over to the new map
clear_keeps_children ==
    LET m == folium_Map(location, options.zoom)
    IN  /\ location' = m.location
        /\ options' = m.options
        /\ children' = children
        /\ info' = Rebind
        /\ held' = Detach
        /\ last' = Returned("clear", <<>>, "ok")
        /\ UNCHANGED frontend

clear ==
    LET center == location
        zoom == options.zoom
        m == folium_Map(center, zoom)
    IN  /\ location' = m.location
        /\ options' = m.options
        /\ children' = m.children
        /\ info' = Rebind
        /\ held' = Detach
        /\ last' = Returned("clear", <<>>, "ok")
        /\ UNCHANGED frontend

\* display without the except clause
display_raises ==
    /\ last' = IF frontend
               THEN [Returned("display", <<>>, "ok") EXCEPT !.out = "rendered"]
               ELSE Returned("display", <<>>, "NameError")
    /\ UNCHANGED <<location, options, children, info, held, frontend>>

\* display(self.folium_map) raises NameError where `display` is not defined
display ==
    /\ last' = [Returned("display", <<>>, "ok")
                   EXCEPT !.out = IF frontend THEN "rendered" ELSE "notice"]
    /\ UNCHANGED <<location, options, children, info, held, frontend>>

---------------------------------------------------------------------------

Centers == { <<lat, lng>> : lat \in LatInputs, lng \in LngInputs }

\* the state FoliumMap(center, zoom_scale) leaves
Constructed(center, zoom_scale) ==
    /\ ValidLocation(center)
    /\ LET m == folium_Map(center, zoom_scale) IN
       /\ location = m.location
       /\ options = m.options
       /\ children = m.children
    /\ info = <<>>
    /\ held = <<>>
    /\ last = Returned("__init__", <<center, zoom_scale>>, "ok")

\* one call of a method, its arguments drawn from the given sets; a drawing call
\* is taken only while the map has room for a row each (the model's bound)
Step(centers, scales, lats, lngs, zooms, tables, kwargsets, cap) ==
    \/ \E center \in centers, zoom_scale \in scales : Construct(center, zoom_scale)
    \/ \E lat \in lats, lng \in lngs : set_center(lat, lng)
    \/ \E zoom \in zooms : set_zoom_scale(zoom)
    \/ get_map_info
    \/ \E loc_df \in tables :
          Len(children) + Shape0(loc_df) <= cap /\ make_marker(loc_df)
    \/ \E geo_path \in Files :
          Len(children) + 1 <= cap /\ make_bound(geo_path)
    \/ \E loc_df \in tables, kwargs \in kwargsets :
          Len(children) + Shape0(loc_df) <= cap /\ make_circle(loc_df, kwargs)
    \/ clear
    \/ display

(* Spec: every center and zoom argument, small tables *)

Init ==
    /\ \E center \in Centers, zoom_scale \in ZoomScales : Constructed(center, zoom_scale)
    /\ frontend \in BOOLEAN

Next ==
    Step(Centers, ZoomScales, LatInputs, LngInputs, ZoomInputs,
         TablesUpTo(FewRows), {NoKwargs}, FewOverlays)

Spec == Init /\ [][Next]_vars

(* SpecOverlays: the run of the module's demo (its center, the default zoom, *)
(* no front-end), every table and keyword set                               *)

DemoCenter == <<F(3755), F(12698)>>

InitOverlays ==
    /\ Constructed(DemoCenter, I(DefaultZoom))
    /\ frontend = FALSE

NextOverlays ==
    Step({DemoCenter}, {I(DefaultZoom)}, {F(3755), Str}, {F(12698)},
         {I(DefaultZoom), F(35)}, TablesUpTo(MaxRows), KwargSets, MaxOverlays)

SpecOverlays == InitOverlays /\ [][NextOverlays]_vars

---------------------------------------------------------------------------
(* Properties *)

\* the error kinds of the specification's taxonomy, as the exceptions the code raises
InvalidArgument == {"Exception"}

FileError == {"FileNotFoundError", "JSONDecodeError"}

\* what the dict returned by get_map_info shows as its options now
InfoOptions == IF info[1].options = "map" THEN options ELSE held[1]

\* C1: for every integer zoom z, set_zoom_scale(z) succeeds and the zoom stored in
\* the map's options is max(1, min(18, z)).
C1_ZoomClamped ==
    (last.op = "set_zoom_scale" /\ last.args[1].t = "int") =>
        LET z == last.args[1].v IN
        /\ last.result = "ok"
        /\ options.zoom = I(IF z < 1 THEN 1 ELSE IF z > 18 THEN 18 ELSE z)

\* set_zoom_scale(25) has returned and 18 is stored
C1_Witness ==
    /\ last.op = "set_zoom_scale"
    /\ last.args = <<I(25)>>
    /\ last.result = "ok"
    /\ options.zoom = I(18)

\* C2: set_zoom_scale with a non-integer zoom, and set_center with a lat or lng that
\* is not numeric, fail with the invalid-argument exception and leave center,
\* zoom and overlays as they were.
C2_RejectedLeavesMap ==
    [][ ( \/ (last'.op = "set_zoom_scale" /\ last'.args[1].t # "int")
          \/ (last'.op = "set_center" /\
                (last'.args[1].t \notin {"int", "float"} \/
                 last'.args[2].t \notin {"int", "float"})) )
        => (last'.result \in InvalidArgument /\ UNCHANGED mapState) ]_vars

\* set_center("a", 1.0)-like call has failed on a map that holds an overlay
C2_Witness ==
    /\ last.op = "set_center"
    /\ last.args[1] = Str
    /\ last.args[2].t = "float"
    /\ last.result = "Exception"
    /\ children # <<>>

C4_ZoomAlwaysInRange ==
    /\ options.zoom.t = "int"
    /\ options.zoom.v \in 1..18
    /\ Len(location) = 2
    /\ location[1].t \in {"int", "float"}
    /\ location[2].t \in {"int", "float"}

\* every row is a location record: a name and a pair of numbers
IsLocationTable(df) ==
    \A p \in 1..Len(df) : df[p].lat.t \in {"int", "float"} /\ df[p].lng.t \in {"int", "float"}

\* C5: for every location table of n rows make_marker and make_circle add exactly n
\* overlays, one per row at the row's (lat, lng), and leave center and options alone.
C5_OneOverlayPerRow ==
    [][ (last'.op \in {"make_marker", "make_circle"} /\ IsLocationTable(last'.args[1])) =>
          LET df == last'.args[1]
              n == Len(df)
              kind == IF last'.op = "make_marker" THEN "Marker" ELSE "Circle"
          IN  /\ last'.result = "ok"
              /\ Len(children') = Len(children) + n
              /\ SubSeq(children', 1, Len(children)) = children
              /\ \A p \in 1..n : \E q \in (Len(children) + 1)..Len(children') :
                    /\ children'[q].kind = kind
                    /\ children'[q].location = <<df[p].lat, df[p].lng>>
              /\ location' = location
              /\ options' = options ]_vars

\* C6: get_map_info() returns the current center and options and changes nothing.
C6_InfoIsCurrent ==
    [][ last'.op = "get_map_info" =>
          /\ last'.result = "ok"
          /\ info' # <<>>
          /\ info'[1].center = location'
          /\ InfoOptions' = options'
          /\ UNCHANGED mapState ]_vars

\* get_map_info() has returned after set_center and set_zoom_scale(0) took effect
C6_Witness ==
    /\ last.op = "get_map_info"
    /\ info # <<>>
    /\ info[1].center = <<I(37), F(1269)>>
    /\ InfoOptions.zoom = I(1)
    /\ children # <<>>

\* C7: make_bound with a path to a missing or malformed file fails with a file
\* error, adds no overlay and leaves center and zoom alone.
C7_BadFileLeavesMap ==
    [][ (last'.op = "make_bound" /\ last'.args[1] \in {"missing", "malformed"}) =>
          /\ last'.result \in FileError
          /\ UNCHANGED mapState ]_vars

\* make_bound on a malformed file has failed on a map that holds overlays
C7_Witness ==
    /\ last.op = "make_bound"
    /\ last.args = <<"malformed">>
    /\ last.result = "JSONDecodeError"
    /\ Len(children) = 2

\* C8: display() without a front-end prints the notice, returns normally and
\* leaves the map and everything a later call reads as they were.
C8_DisplayFallsBack ==
    [][ (last'.op = "display" /\ ~frontend) =>
          /\ last'.result = "ok"
          /\ last'.out = "notice"
          /\ UNCHANGED <<location, options, children, info, held, frontend>> ]_vars

\* display() has printed the notice on a map that holds an overlay
C8_Witness ==
    /\ last.op = "display"
    /\ ~frontend
    /\ last.out = "notice"
    /\ last.result = "ok"
    /\ children # <<>>

\* C9: the dict get_map_info returned keeps the center and options it had when
\* it was returned, whatever is called afterwards.
C9_InfoIsSnapshot ==
    [][ (info # <<>> /\ last'.op # "get_map_info") =>
          /\ info' # <<>>
          /\ info'[1].center = info[1].center
          /\ InfoOptions' = InfoOptions ]_vars

\* row i of the loops fails: label i is missing, or held by several rows, or the
\* row's coordinates are not numbers
Selected(df, i) == { p \in 1..Len(df) : df[p].label = i }

RowFails(df, i) ==
    \/ Cardinality(Selected(df, i)) # 1
    \/ \E p \in Selected(df, i) :
          df[p].lat.t \notin {"int", "float"} \/ df[p].lng.t \notin {"int", "float"}

\* the first failing row, or the number of rows when none fails
FirstFailure(df) ==
    IF \E i \in 0..(Len(df) - 1) : RowFails(df, i)
    THEN CHOOSE i \in 0..(Len(df) - 1) :
            RowFails(df, i) /\ \A j \in 0..(i - 1) : ~RowFails(df, j)
    ELSE Len(df)

\* C10: make_marker and make_circle take the rows in order 0..n-1 and attach each
\* overlay before the next row; when row k fails the error reaches the caller and
\* exactly the overlays of rows 0..k-1 stay attached, after those already there.
C10_PartialOverlaysStay ==
    [][ last'.op \in {"make_marker", "make_circle"} =>
          LET df == last'.args[1]
              k == FirstFailure(df)
              kind == IF last'.op = "make_marker" THEN "Marker" ELSE "Circle"
          IN  /\ (last'.result = "ok") <=> (k = Len(df))
              /\ Len(children') = Len(children) + k
              /\ SubSeq(children', 1, Len(children)) = children
              /\ \A i \in 0..(k - 1) :
                    LET o == children'[Len(children) + i + 1]
                        p == CHOOSE q \in Selected(df, i) : TRUE
                    IN  /\ o.kind = kind
                        /\ o.location = <<df[p].lat, df[p].lng>>
                        /\ o.popup.text = df[p].name ]_vars

\* make_marker has failed with KeyError at row 1 of a 3-row table and the marker
\* of row 0 is the one overlay of the map
C10_Witness ==
    /\ last.op = "make_marker"
    /\ last.result = "KeyError"
    /\ Len(last.args[1]) = 3
    /\ FirstFailure(last.args[1]) = 1
    /\ Len(children) = 1
    /\ children[1].kind = "Marker"

====
